---------------------------- MODULE Spec2Model ----------------------------
(***************************************************************************)
(* A model of github.com/navaz-alani/hotel: the date package (validated    *)
(* calendar dates), the room package (a lockable room record) and the      *)
(* hotel package (the registry loaded from an attribute file and a room    *)
(* file).                                                                  *)
(*                                                                         *)
(* Go values are modelled as follows.  A pointer or an error that may be   *)
(* nil is a sequence of length 0 (nil) or a non-empty tuple.  A string     *)
(* whose characters the code looks at (a line, a numeric field, the        *)
(* attribute field) is a sequence of one-character strings; a string that  *)
(* the code only compares or stores is a TLA+ string.                      *)
(***************************************************************************)
EXTENDS Integers, Sequences, FiniteSets, TLC

VARIABLES
    \* ---- package date
    dIn,        \* the arguments (year, month, day) of date.New
    newRes,     \* <<>> before the call, <<result of New(year, month, day)>> after
    validRes,   \* <<>> before, <<result of IsValid on the Date New returned>> after
    monthRes,   \* <<>> before the call, <<MonthToStr(month)>> after
    leapRes,    \* <<>> before the call, <<isLeapYear(year)>> after
    \* ---- package room: one Room shared by the threads
    room,       \* the Room: its id, price, state and attrs
    rw,         \* the Room's mu: the writer that holds or awaits it, the read locks held
    rpc,        \* the place of each thread in Satisfies or AddAttribute
    rarg,       \* the argument of each thread's call
    rres,       \* what each thread's last Satisfies returned (<<>> before)
    rcalls,     \* the number of calls each thread has completed
    radded,     \* the attributes of the AddAttribute calls that have returned
    \* ---- package room: one call of NewRoomFromRecord
    recIn,      \* the arguments (record, validAttributes) of NewRoomFromRecord
    recRes,     \* <<>> before the call, <<what NewRoomFromRecord returned>> after
    \* ---- package hotel: one Hotel
    h,          \* the Hotel: numRooms, rooms (a map from room number to Room), roomAttrs
    hpc,        \* the place of each thread in NewHotelFromData or loadRooms
    hf,         \* each thread's call: its arguments and locals, and the Hotel as it was
                \* when loadRooms was entered
    hret,       \* <<>>, or <<what each thread's last call returned>>
    registry,   \* whether NewHotelFromData has returned the Hotel
    hloads,     \* the number of loadRooms calls made on the returned Hotel
    \* ---- package hotel: loadRooms called by two threads at once
    hmu,        \* the Hotel's mu: <<>>, or <<the thread that holds it>>
    hleft,      \* the keys each thread's range loop has yet to enter into h.rooms
    hbase       \* the rooms of the Hotel before the threads called loadRooms

dateVars == <<dIn, newRes, validRes, monthRes, leapRes>>
roomVars == <<room, rw, rpc, rarg, rres, rcalls, radded>>

hotelVars == <<h, hpc, hf, hret, registry, hloads>>

recordVars == <<recIn, recRes>>

concVars == <<hmu, hleft, hbase>>

vars == <<dateVars, roomVars, hotelVars, recordVars, concVars>>

(***************************************************************************)
(*                              package date                               *)
(***************************************************************************)

\* Bounds of the inputs of the date package.
MaxMonthIn == 13
MaxDayIn == 32
Years == {0, 1, 4, 100, 400, 1900, 1999, 2000, 2023, 2024, 2400}

Jan == 1
Feb == 2
Mar == 3
Apr == 4
May == 5
Jun == 6
Jul == 7
Aug == 8
Sep == 9
Oct == 10
Nov == 11
Dec == 12
InvalidMonth == "INVALID_MONTH"

\* The nil error and the nil pointer.
NoErr == <<>>
NilPtr == <<>>

\* func MonthToStr(m uint) string: the switch has no case for May.
MonthToStr(m) ==
    CASE m = Jan -> "January"
      [] m = Feb -> "February"
      [] m = Mar -> "March"
      [] m = Apr -> "April"
      [] m = Jun -> "June"
      [] m = Jul -> "July"
      [] m = Aug -> "August"
      [] m = Sep -> "September"
      [] m = Oct -> "October"
      [] m = Nov -> "November"
      [] m = Dec -> "December"
      [] OTHER -> InvalidMonth

\* A leap test without the rule of the centuries.
isLeapYear_NoCentury(y) == y % 4 = 0

\* func isLeapYear(y uint) bool
isLeapYear(y) ==
    IF y % 400 = 0 THEN TRUE
    ELSE IF y % 100 = 0 THEN FALSE
    ELSE IF y % 4 = 0 THEN TRUE
    ELSE FALSE

\* The errors of IsValid, each the tag of its format string and its arguments.
ErrDayRange(day) == <<"expected day to be between 0 and 31", day>>
ErrMonthRange(month) == <<"expected month to be between 0 and 12", month>>
ErrFebLeap(day, year) == <<"day greater than 29 in leap year", day, year>>
ErrFebNonLeap(day, year) == <<"day greater than 28 in non-leap year", day, year>>
ErrUpperBound(day, ub, name) == <<"expected day to be at most ub for month", day, ub, name>>

\* The value of ub after the switch of IsValid: the February case returns or
\* leaves ub at its zero value.
UpperBound(month) ==
    IF month = Feb THEN 0
    ELSE IF month \in {Jan, Mar, May, Jul, Aug, Oct, Dec} THEN 31
    ELSE 30

IsValid_NoUpperBound(d) ==
    IF d.Day = 0 \/ d.Day > 31 THEN ErrDayRange(d.Day)
    ELSE IF d.Month = 0 \/ d.Month > 12 THEN ErrMonthRange(d.Month)
    ELSE IF d.Month = Feb /\ isLeapYear(d.Year) /\ d.Day > 29
        THEN ErrFebLeap(d.Day, d.Year)
    ELSE IF d.Month = Feb /\ ~isLeapYear(d.Year) /\ d.Day > 28
        THEN ErrFebNonLeap(d.Day, d.Year)
    ELSE NoErr

\* func (d *Date) IsValid() error
IsValid(d) ==
    IF d.Day = 0 \/ d.Day > 31 THEN ErrDayRange(d.Day)
    ELSE IF d.Month = 0 \/ d.Month > 12 THEN ErrMonthRange(d.Month)
    ELSE IF d.Month = Feb /\ isLeapYear(d.Year) /\ d.Day > 29
        THEN ErrFebLeap(d.Day, d.Year)
    ELSE IF d.Month = Feb /\ ~isLeapYear(d.Year) /\ d.Day > 28
        THEN ErrFebNonLeap(d.Day, d.Year)
    ELSE IF d.Day > UpperBound(d.Month)
        THEN ErrUpperBound(d.Day, UpperBound(d.Month), MonthToStr(d.Month))
    ELSE NoErr

\* The error New returns: "invalid date: " followed by the error of IsValid.
ErrInvalidDate(err) == <<"invalid date", err>>

\* func New(year, month, day uint) (*Date, error): the month test at the top
\* has an empty body.
New(year, month, day) ==
    LET d == [Day |-> day, Month |-> month, Year |-> year]
    IN  IF IsValid(d) # NoErr
        THEN [date |-> NilPtr, err |-> ErrInvalidDate(IsValid(d))]
        ELSE [date |-> <<d>>, err |-> NoErr]

\* The variables of the other packages while the date package runs.
RoomUnused ==
    /\ room = [id |-> 0, price |-> 0, state |-> "", attrs |-> {}]
    /\ rw = [w |-> <<>>, readerCount |-> 0]
    /\ rpc = <<>>
    /\ rarg = <<>>
    /\ rres = <<>>
    /\ rcalls = <<>>
    /\ radded = {}

RecordUnused ==
    /\ recIn = [record |-> <<>>, validAttributes |-> <<>>]
    /\ recRes = <<>>

ConcUnused ==
    /\ hmu = <<>>
    /\ hleft = <<>>
    /\ hbase = <<>>

HotelUnused ==
    /\ h = [numRooms |-> 0, rooms |-> <<>>, roomAttrs |-> <<>>]
    /\ hpc = <<>>
    /\ hf = <<>>
    /\ hret = <<>>
    /\ registry = FALSE
    /\ hloads = 0

DateInit ==
    /\ RoomUnused
    /\ HotelUnused
    /\ RecordUnused
    /\ ConcUnused
    /\ dIn \in [year : Years, month : 0..MaxMonthIn, day : 0..MaxDayIn]
    /\ newRes = <<>>
    /\ validRes = <<>>
    /\ monthRes = <<>>
    /\ leapRes = <<>>

\* A call of date.New on the arguments.
CallNew ==
    /\ newRes = <<>>
    /\ newRes' = <<New(dIn.year, dIn.month, dIn.day)>>
    /\ UNCHANGED <<dIn, validRes, monthRes, leapRes, roomVars, hotelVars, recordVars, concVars>>

\* A call of IsValid on the Date that New returned.
CallIsValid ==
    /\ newRes # <<>>
    /\ newRes[1].date # NilPtr
    /\ validRes = <<>>
    /\ validRes' = <<IsValid(newRes[1].date[1])>>
    /\ UNCHANGED <<dIn, newRes, monthRes, leapRes, roomVars, hotelVars, recordVars, concVars>>

\* A call of date.MonthToStr on the month argument.
CallMonthToStr ==
    /\ monthRes = <<>>
    /\ monthRes' = <<MonthToStr(dIn.month)>>
    /\ UNCHANGED <<dIn, newRes, validRes, leapRes, roomVars, hotelVars, recordVars, concVars>>

\* A call of isLeapYear on the year argument.
CallIsLeapYear ==
    /\ leapRes = <<>>
    /\ leapRes' = <<isLeapYear(dIn.year)>>
    /\ UNCHANGED <<dIn, newRes, validRes, monthRes, roomVars, hotelVars, recordVars, concVars>>

DateNext == CallNew \/ CallIsValid \/ CallMonthToStr \/ CallIsLeapYear

DateSpec == DateInit /\ [][DateNext]_vars


(***************************************************************************)
(*                     The calendar the claims refer to                    *)
(***************************************************************************)

\* The Gregorian leap years.
GregorianLeap(y) == (y % 400 = 0) \/ (y % 4 = 0 /\ y % 100 # 0)

\* The true length of month m (in 1..12) of year y.
TrueMonthLength(y, m) ==
    IF m = 2 THEN (IF GregorianLeap(y) THEN 29 ELSE 28)
    ELSE IF m \in {4, 6, 9, 11} THEN 30
    ELSE 31

\* (y, m, d) is a day of the calendar.
CalendarDay(y, m, d) ==
    /\ m \in 1..12
    /\ 1 <= d
    /\ d <= TrueMonthLength(y, m)

EnglishMonthNames ==
    <<"January", "February", "March", "April", "May", "June", "July",
      "August", "September", "October", "November", "December">>

NewCalled == newRes # <<>>

(***************************************************************************)
(* C1: for every (year, month, day) with month in 1..12 and day between 1  *)
(* and the true length of the month, New returns a Date and no error, and  *)
(* IsValid on that Date returns nil.                                       *)
(***************************************************************************)
C1_NewAcceptsCalendarDays ==
    (NewCalled /\ CalendarDay(dIn.year, dIn.month, dIn.day)) =>
        /\ newRes[1].err = NoErr
        /\ newRes[1].date # NilPtr
        /\ (validRes # <<>> => validRes[1] = NoErr)

(***************************************************************************)
(* C4: MonthToStr(m) is the English name of month m for m in 1..12 and the *)
(* sentinel "INVALID_MONTH" for every other m.                             *)
(***************************************************************************)
C4_MonthToStrTotal ==
    monthRes # <<>> =>
        monthRes[1] = (IF dIn.month \in 1..12
                       THEN EnglishMonthNames[dIn.month]
                       ELSE "INVALID_MONTH")

(***************************************************************************)
(* C10: New returns a Date only for a day of the calendar; for day = 0, a  *)
(* day beyond the month's true length or a month outside 1..12 it returns  *)
(* no Date and an error that names the violated bound: the absolute day    *)
(* range, the month range, 29 or 28 for February with the year, or the     *)
(* upper bound of the month with the month's name.                         *)
(***************************************************************************)
C10_ExpectedError ==
    LET y == dIn.year
        m == dIn.month
        d == dIn.day
    IN  IF d < 1 \/ d > 31 THEN ErrDayRange(d)
        ELSE IF m \notin 1..12 THEN ErrMonthRange(m)
        ELSE IF m = 2 /\ GregorianLeap(y) THEN ErrFebLeap(d, y)
        ELSE IF m = 2 THEN ErrFebNonLeap(d, y)
        ELSE ErrUpperBound(d, TrueMonthLength(y, m), EnglishMonthNames[m])

C10_NewRejectsNonDays ==
    NewCalled =>
        /\ newRes[1].date # NilPtr =>
              /\ CalendarDay(dIn.year, dIn.month, dIn.day)
              /\ newRes[1].date[1] =
                    [Day |-> dIn.day, Month |-> dIn.month, Year |-> dIn.year]
        /\ ~CalendarDay(dIn.year, dIn.month, dIn.day) =>
              /\ newRes[1].date = NilPtr
              /\ newRes[1].err = ErrInvalidDate(C10_ExpectedError)

\* New has rejected the 29th of February of a year that is not a leap year.
C10_Witness ==
    /\ NewCalled
    /\ dIn.month = 2 /\ dIn.day = 29 /\ dIn.year = 1900
    /\ newRes[1].date = NilPtr
    /\ newRes[1].err = ErrInvalidDate(ErrFebNonLeap(29, 1900))


(***************************************************************************)
(*                              package room                               *)
(***************************************************************************)

\* Parts of a record (iota counts from 0, a sequence from 1).
EntryID == 1
EntryPrice == 2
EntryState == 3
EntryAttributes == 4

StateOccupied == "OCCUPIED"
StateUnavailable == "UNAVAILABLE"
StateFree == "FREE"

DecimalDigits == <<"0", "1", "2", "3", "4", "5", "6", "7", "8", "9">>

DigitValue(c) == (CHOOSE i \in 1..10 : DecimalDigits[i] = c) - 1

RECURSIVE DecimalValue(_)
DecimalValue(s) ==
    IF s = <<>> THEN 0
    ELSE 10 * DecimalValue(SubSeq(s, 1, Len(s) - 1)) + DigitValue(s[Len(s)])

\* strconv.ParseUint(s, 10, 64) on a text short enough not to overflow: a
\* syntax error for the empty text and for any character that is no digit.
ParseUint(s) ==
    IF s = <<>> \/ \E i \in 1..Len(s) : \A j \in 1..10 : DecimalDigits[j] # s[i]
    THEN [val |-> 0, err |-> <<"strconv.ParseUint: invalid syntax", s>>]
    ELSE [val |-> DecimalValue(s), err |-> NoErr]

\* The least index at which sep occurs in s, 0 when it does not.
Index(s, sep) ==
    LET at == {i \in 1..(Len(s) - Len(sep) + 1) : SubSeq(s, i, i + Len(sep) - 1) = sep}
    IN  IF at = {} THEN 0 ELSE CHOOSE i \in at : \A j \in at : i <= j

\* strings.Split(s, sep) for a non-empty sep: the texts between the
\* occurrences of sep; <<s>> when sep does not occur.
RECURSIVE Split(_, _)
Split(s, sep) ==
    IF Index(s, sep) = 0 THEN <<s>>
    ELSE <<SubSeq(s, 1, Index(s, sep) - 1)>>
            \o Split(SubSeq(s, Index(s, sep) + Len(sep), Len(s)), sep)

\* func NewRoom(id Number) *Room
NewRoom(id) == [id |-> id, price |-> 0, state |-> "", attrs |-> {}]

ErrRecordLen == <<"invalid record: expected entries", 4>>
ErrRecordId(text, err) == <<"invalid record (id)", text, err>>
ErrRecordPrice(text, err) == <<"invalid record (price)", text, err>>
ErrRecordState(text) == <<"invalid record (state): unrecognized state", text>>

\* A NewRoomFromRecord that refuses the attributes missing from validAttributes.
NewRoomFromRecord_ChecksVocabulary(record, validAttributes) ==
    IF Len(record) # 4 THEN [room |-> NilPtr, err |-> ErrRecordLen]
    ELSE IF ParseUint(record[EntryID]).err # NoErr
        THEN [room |-> NilPtr,
              err |-> ErrRecordId(record[1], ParseUint(record[EntryID]).err)]
    ELSE IF ParseUint(record[EntryPrice]).err # NoErr
        THEN [room |-> NilPtr,
              err |-> ErrRecordPrice(record[2], ParseUint(record[EntryPrice]).err)]
    ELSE IF record[EntryState] \notin {"OCCUPIED", "UNAVAILABLE", "FREE"}
        THEN [room |-> NilPtr, err |-> ErrRecordState(record[EntryState])]
    ELSE IF \E i \in 1..Len(Split(record[EntryAttributes], <<",">>)) :
                \A j \in 1..Len(validAttributes) :
                    validAttributes[j] # Split(record[EntryAttributes], <<",">>)[i]
        THEN [room |-> NilPtr, err |-> <<"invalid record (attribute)">>]
    ELSE [room |-> <<[id |-> ParseUint(record[EntryID]).val,
                      price |-> ParseUint(record[EntryPrice]).val,
                      state |-> record[EntryState],
                      attrs |-> {Split(record[EntryAttributes], <<",">>)[i] :
                                    i \in 1..Len(Split(record[EntryAttributes], <<",">>))}]>>,
          err |-> NoErr]

\* func NewRoomFromRecord(record []string, validAttributes []Attribute) (*Room, error)
NewRoomFromRecord(record, validAttributes) ==
    IF Len(record) # 4 THEN [room |-> NilPtr, err |-> ErrRecordLen]
    ELSE IF ParseUint(record[EntryID]).err # NoErr
        THEN [room |-> NilPtr,
              err |-> ErrRecordId(record[1], ParseUint(record[EntryID]).err)]
    ELSE IF ParseUint(record[EntryPrice]).err # NoErr
        THEN [room |-> NilPtr,
              err |-> ErrRecordPrice(record[2], ParseUint(record[EntryPrice]).err)]
    ELSE IF record[EntryState] \notin {"OCCUPIED", "UNAVAILABLE", "FREE"}
        THEN [room |-> NilPtr, err |-> ErrRecordState(record[EntryState])]
    ELSE [room |-> <<[id |-> ParseUint(record[EntryID]).val,
                      price |-> ParseUint(record[EntryPrice]).val,
                      state |-> CASE record[EntryState] = "OCCUPIED" -> StateOccupied
                                  [] record[EntryState] = "UNAVAILABLE" -> StateUnavailable
                                  [] OTHER -> StateFree,
                      attrs |-> {Split(record[EntryAttributes], <<",">>)[i] :
                                    i \in 1..Len(Split(record[EntryAttributes], <<",">>))}]>>,
          err |-> NoErr]

\* func (r *Room) ID() Number on a pointer that is not nil.
ID(r) == r.id


(***************************************************************************)
(* Satisfies and AddAttribute called by concurrent threads on one Room.    *)
(* sync.RWMutex: Lock excludes the other writers and every later RLock     *)
(* from the moment it is called, and returns once no read lock is held;    *)
(* RLock returns once no writer holds or awaits the lock.                  *)
(***************************************************************************)

Threads == {"t1", "t2"}

\* Bounds: the calls each thread makes, the length of Satisfies' argument.
MaxCalls == 2
MaxSatLen == 2

AttrNames == {<<"a">>, <<"b">>}

SatArgs == UNION {[1..n -> AttrNames] : n \in 0..MaxSatLen}

\* The rooms the threads may share: one of NewRoom, one of NewRoomFromRecord.
SharedRooms ==
    {NewRoom(1),
     NewRoomFromRecord(<< <<"7">>, <<"5">>, "FREE", <<"a">> >>, <<>>).room[1]}

\* r.mu.RLock() returning
RLock(l) == [l EXCEPT !.readerCount = @ + 1]

\* What the deferred call of Satisfies does to the lock: r.mu.RLocker() only
\* returns a Locker for the read side, it releases nothing.
DeferredRLocker(l) == l

\* r.mu.Lock() called by t: t is the writer from now on
Lock(l, t) == [l EXCEPT !.w = <<t>>]

\* r.mu.Unlock()
Unlock(l) == [l EXCEPT !.w = <<>>]

DateUnused ==
    /\ dIn = [year |-> 0, month |-> 0, day |-> 0]
    /\ newRes = <<>>
    /\ validRes = <<>>
    /\ monthRes = <<>>
    /\ leapRes = <<>>

RoomInit ==
    /\ DateUnused
    /\ HotelUnused
    /\ RecordUnused
    /\ ConcUnused
    /\ room \in SharedRooms
    /\ rw = [w |-> <<>>, readerCount |-> 0]
    /\ rpc = [t \in Threads |-> "idle"]
    /\ rarg = [t \in Threads |-> <<>>]
    /\ rres = [t \in Threads |-> <<>>]
    /\ rcalls = [t \in Threads |-> 0]
    /\ radded = {}

\* Thread t calls r.Satisfies(attrs).
SatisfiesCall(t, attrs) ==
    /\ rpc[t] = "idle"
    /\ rcalls[t] < MaxCalls
    /\ rpc' = [rpc EXCEPT ![t] = "s_rlock"]
    /\ rarg' = [rarg EXCEPT ![t] = attrs]
    /\ rres' = [rres EXCEPT ![t] = <<>>]
    /\ UNCHANGED <<room, rw, rcalls, radded, dateVars, hotelVars, recordVars, concVars>>

\* r.mu.RLock() returns.
SatisfiesRLock(t) ==
    /\ rpc[t] = "s_rlock"
    /\ rw.w = <<>>
    /\ rw' = RLock(rw)
    /\ rpc' = [rpc EXCEPT ![t] = "s_scan"]
    /\ UNCHANGED <<room, rarg, rres, rcalls, radded, dateVars, hotelVars, recordVars, concVars>>

\* A Satisfies whose loop stops after the first attribute.
SatisfiesScan_FirstOnly(t) ==
    /\ rpc[t] = "s_scan"
    /\ rres' = [rres EXCEPT ![t] =
                  <<rarg[t] = <<>> \/ rarg[t][1] \in room.attrs>>]
    /\ rpc' = [rpc EXCEPT ![t] = "s_ret"]
    /\ UNCHANGED <<room, rw, rarg, rcalls, radded, dateVars, hotelVars, recordVars, concVars>>

\* The loop of Satisfies over attrs, the read lock held.
SatisfiesScan(t) ==
    /\ rpc[t] = "s_scan"
    /\ rres' = [rres EXCEPT ![t] =
                  <<\A i \in 1..Len(rarg[t]) : rarg[t][i] \in room.attrs>>]
    /\ rpc' = [rpc EXCEPT ![t] = "s_ret"]
    /\ UNCHANGED <<room, rw, rarg, rcalls, radded, dateVars, hotelVars, recordVars, concVars>>

\* Satisfies returns: the deferred call runs.
SatisfiesReturn(t) ==
    /\ rpc[t] = "s_ret"
    /\ rw' = DeferredRLocker(rw)
    /\ rpc' = [rpc EXCEPT ![t] = "idle"]
    /\ rarg' = [rarg EXCEPT ![t] = <<>>]
    /\ rcalls' = [rcalls EXCEPT ![t] = @ + 1]
    /\ UNCHANGED <<room, rres, radded, dateVars, hotelVars, recordVars, concVars>>

\* Thread t calls r.AddAttribute(attr).
AddAttributeCall(t, attr) ==
    /\ rpc[t] = "idle"
    /\ rcalls[t] < MaxCalls
    /\ rpc' = [rpc EXCEPT ![t] = "a_lock"]
    /\ rarg' = [rarg EXCEPT ![t] = <<attr>>]
    /\ rres' = [rres EXCEPT ![t] = <<>>]
    /\ UNCHANGED <<room, rw, rcalls, radded, dateVars, hotelVars, recordVars, concVars>>

\* r.mu.Lock() is entered: t becomes the pending writer.
AddAttributeLock(t) ==
    /\ rpc[t] = "a_lock"
    /\ rw.w = <<>>
    /\ rw' = Lock(rw, t)
    /\ rpc' = [rpc EXCEPT ![t] = "a_wait"]
    /\ UNCHANGED <<room, rarg, rres, rcalls, radded, dateVars, hotelVars, recordVars, concVars>>

\* A Lock that returns while read locks are still held.
AddAttributeAcquire_NoWait(t) ==
    /\ rpc[t] = "a_wait"
    /\ rpc' = [rpc EXCEPT ![t] = "a_write"]
    /\ UNCHANGED <<room, rw, rarg, rres, rcalls, radded, dateVars, hotelVars, recordVars, concVars>>

\* r.mu.Lock() returns: no read lock is held any more.
AddAttributeAcquire(t) ==
    /\ rpc[t] = "a_wait"
    /\ rw.readerCount = 0
    /\ rpc' = [rpc EXCEPT ![t] = "a_write"]
    /\ UNCHANGED <<room, rw, rarg, rres, rcalls, radded, dateVars, hotelVars, recordVars, concVars>>

\* A write that replaces the attribute set by the one attribute.
AddAttributeWrite_Replaces(t) ==
    /\ rpc[t] = "a_write"
    /\ room' = [room EXCEPT !.attrs = {rarg[t][1]}]
    /\ rpc' = [rpc EXCEPT ![t] = "a_unlock"]
    /\ UNCHANGED <<rw, rarg, rres, rcalls, radded, dateVars, hotelVars, recordVars, concVars>>

\* r.attrs[attr] = struct{}{}
AddAttributeWrite(t) ==
    /\ rpc[t] = "a_write"
    /\ room' = [room EXCEPT !.attrs = @ \cup {rarg[t][1]}]
    /\ rpc' = [rpc EXCEPT ![t] = "a_unlock"]
    /\ UNCHANGED <<rw, rarg, rres, rcalls, radded, dateVars, hotelVars, recordVars, concVars>>

\* AddAttribute returns: the deferred r.mu.Unlock() runs.
AddAttributeUnlock(t) ==
    /\ rpc[t] = "a_unlock"
    /\ rw' = Unlock(rw)
    /\ rpc' = [rpc EXCEPT ![t] = "idle"]
    /\ rarg' = [rarg EXCEPT ![t] = <<>>]
    /\ rcalls' = [rcalls EXCEPT ![t] = @ + 1]
    /\ radded' = radded \cup {rarg[t][1]}
    /\ UNCHANGED <<room, rres, dateVars, hotelVars, recordVars, concVars>>

\* The steps of a call that thread t has made.
RoomStep(t) ==
    \/ SatisfiesRLock(t)
    \/ SatisfiesScan(t)
    \/ SatisfiesReturn(t)
    \/ AddAttributeLock(t)
    \/ AddAttributeAcquire(t)
    \/ AddAttributeWrite(t)
    \/ AddAttributeUnlock(t)

RoomNext ==
    \E t \in Threads :
        \/ \E attrs \in SatArgs : SatisfiesCall(t, attrs)
        \/ \E attr \in AttrNames : AddAttributeCall(t, attr)
        \/ RoomStep(t)

RoomSpec == RoomInit /\ [][RoomNext]_vars

\* Every thread that can take a step of its call eventually takes it (the Go
\* scheduler runs every runnable goroutine); no thread is obliged to call.
FairRoomSpec == RoomSpec /\ \A t \in Threads : WF_vars(RoomStep(t))

(***************************************************************************)
(* C2: every Satisfies call releases the Room's lock when it returns, so   *)
(* under fair scheduling every AddAttribute call eventually acquires the   *)
(* exclusive lock and completes, also when issued after Satisfies calls    *)
(* have returned.                                                          *)
(***************************************************************************)
C2_AddAttributeCompletes ==
    \A t \in Threads : (rpc[t] = "a_lock") ~> (rpc[t] = "idle")


(***************************************************************************)
(* NewRoomFromRecord called once, on a record and a vocabulary.            *)
(***************************************************************************)

\* Bound: the length of the id, price and attributes texts of a record.
MaxFieldLen == 2

Texts(chars) == UNION {[1..n -> chars] : n \in 0..MaxFieldLen}

IdTexts == Texts({"0", "7", "x"})
PriceTexts == Texts({"5", "y"})
StateTexts == {"OCCUPIED", "UNAVAILABLE", "FREE", "BUSY", "free", ""}
AttrTexts == Texts({"a", ",", " "})

\* The records: those of 4 fields, and one cut to 0..3 fields or grown to 5.
Records ==
    {<<id, price, state, attrs>> :
        id \in IdTexts, price \in PriceTexts, state \in StateTexts, attrs \in AttrTexts}
    \cup {SubSeq(<< <<"7">>, <<"5">>, "FREE", <<"a">>, <<"a">> >>, 1, n) : n \in {0, 1, 2, 3, 5}}

Vocabularies == {<<>>, << <<"a">> >>}

RecordInit ==
    /\ DateUnused
    /\ RoomUnused
    /\ HotelUnused
    /\ ConcUnused
    /\ recIn \in [record : Records, validAttributes : Vocabularies]
    /\ recRes = <<>>

\* A call of NewRoomFromRecord on the arguments.
CallNewRoomFromRecord ==
    /\ recRes = <<>>
    /\ recRes' = <<NewRoomFromRecord(recIn.record, recIn.validAttributes)>>
    /\ UNCHANGED <<recIn, dateVars, roomVars, hotelVars, concVars>>

RecordNext == CallNewRoomFromRecord

RecordSpec == RecordInit /\ [][RecordNext]_vars

(***************************************************************************)
(*                              package hotel                              *)
(*                                                                         *)
(* A data file is [openErr, entries]: whether os.Open fails, and what the  *)
(* reader delivers one after the other, each entry [readErr, data]: either *)
(* a failure of the read itself (an I/O error, a line the scanner or the   *)
(* csv reader rejects) or a line (attribute file) or a record, the         *)
(* sequence of its fields (room file).  The first entry of a room file is  *)
(* its header.                                                             *)
(***************************************************************************)

HotelThreads == {"main"}

\* Bounds: the records of a room file after its header, the loadRooms calls
\* made on a Hotel after NewHotelFromData returned it.
MaxRecords == 3
MaxReloads == 1

Line(text) == [readErr |-> FALSE, data |-> text]
Record(fields) == [readErr |-> FALSE, data |-> fields]
ReadFailure == [readErr |-> TRUE, data |-> <<>>]
File(entries) == [openErr |-> FALSE, entries |-> entries]
Unopenable == [openErr |-> TRUE, entries |-> <<>>]

\* The headers of a room file: of 4 fields, and of 3.
Headers ==
    {Record(<< <<"i", "d">>, <<"p", "r">>, "state", <<"a", "t">> >>),
     Record(<< <<"i", "d">>, <<"p", "r">>, "state" >>)}

\* What may follow the header: three well-formed records (two of the same
\* room number), one with each kind of malformed field, one of 3 fields, and
\* a failure of the read.
RecordPool ==
    {Record(<< <<"1">>, <<"5">>, "FREE", <<"a">> >>),
     Record(<< <<"1">>, <<"7">>, "OCCUPIED", <<"a", ",", "b">> >>),
     Record(<< <<"2">>, <<"5">>, "UNAVAILABLE", <<>> >>),
     Record(<< <<"x">>, <<"5">>, "FREE", <<"a">> >>),
     Record(<< <<"2">>, <<"y">>, "FREE", <<"a">> >>),
     Record(<< <<"2">>, <<"5">>, "BUSY", <<"a">> >>),
     Record(<< <<"2">>, <<"5">>, "FREE" >>),
     ReadFailure}

RoomFiles ==
    {Unopenable, File(<<>>)}
    \cup {File(<<hd>> \o recs) :
            hd \in Headers, recs \in UNION {[1..n -> RecordPool] : n \in 0..MaxRecords}}

\* The attribute files NewHotelFromData is given when the rooms are the subject.
FewAttrFiles ==
    {Unopenable,
     File(<< Line(<<"v">>) >>),
     File(<< Line(<<"v">>), ReadFailure >>)}

ErrAttrsOpen == <<"attributes load err", "open">>
ErrRoomsOpen == <<"rooms load err", "open">>
ErrLoadFatal(i) == <<"load err [fatal]", i>>
ErrRoomParse(err) == <<"load err: room parse err", err>>

\* The attribute loadAttributes takes from a line: strings.Split(line, " \t")[0].
LineAttr(text) == Split(text, <<" ", "\t">>)[1]

\* The loop of loadAttributes from entry i on, attrs being h.roomAttrs:
\* scanner.Scan() is false at the end of the file and at a failure of the read.
RECURSIVE ScanLines(_, _, _)
ScanLines(file, i, attrs) ==
    IF i > Len(file.entries) \/ file.entries[i].readErr THEN attrs
    ELSE IF LineAttr(file.entries[i].data) = <<>> \/ LineAttr(file.entries[i].data) = <<"#">>
        THEN ScanLines(file, i + 1, attrs)
    ELSE ScanLines(file, i + 1, Append(attrs, LineAttr(file.entries[i].data)))

\* func (h *Hotel) loadAttributes(attrData string) error: the error returned
\* and h.roomAttrs afterwards.  scanner.Err() is never looked at.
loadAttributes(hotel, file) ==
    IF file.openErr THEN [err |-> ErrAttrsOpen, roomAttrs |-> hotel.roomAttrs]
    ELSE [err |-> NoErr, roomAttrs |-> ScanLines(file, 1, hotel.roomAttrs)]

\* csvReader.Read() on entry i: a failure of the read, or (FieldsPerRecord
\* is 0) a record whose number of fields differs from the first record's.
CsvReadFails(file, i) ==
    \/ file.entries[i].readErr
    \/ Len(file.entries[i].data) # Len(file.entries[1].data)

\* A map write that keeps the entry a key already has.
MapPut_KeepsFirst(rooms, k, v) ==
    [x \in DOMAIN rooms \cup {k} |-> IF x \in DOMAIN rooms THEN rooms[x] ELSE v]

\* rooms[k] = v
MapPut(rooms, k, v) ==
    [x \in DOMAIN rooms \cup {k} |-> IF x = k THEN v ELSE rooms[x]]

\* ReadRecords with the strict test lost: a malformed record is skipped in
\* both modes.
RECURSIVE ReadRecords_SkipsMalformed(_, _, _, _, _)
ReadRecords_SkipsMalformed(file, i, rooms, strict, validAttributes) ==
    IF i = Len(file.entries) THEN [end |-> "eof", rooms |-> rooms, err |-> NoErr]
    ELSE IF CsvReadFails(file, i + 1)
        THEN [end |-> "return", rooms |-> rooms, err |-> ErrLoadFatal(i + 1)]
    ELSE IF i = 0
        THEN ReadRecords_SkipsMalformed(file, 1, rooms, strict, validAttributes)
    ELSE LET made == NewRoomFromRecord(file.entries[i + 1].data, validAttributes)
         IN  IF made.err # NoErr
                 THEN ReadRecords_SkipsMalformed(file, i + 1, rooms, strict, validAttributes)
             ELSE ReadRecords_SkipsMalformed(file, i + 1,
                              MapPut(rooms, ID(made.room[1]), made.room[1]),
                              strict, validAttributes)

\* ReadRecords with an ID() that answers 0 on the nil pointer: the loop
\* enters the nil Room of a malformed record under room number 0.
RECURSIVE ReadRecords_InsertsNil(_, _, _, _, _)
ReadRecords_InsertsNil(file, i, rooms, strict, validAttributes) ==
    IF i = Len(file.entries) THEN [end |-> "eof", rooms |-> rooms, err |-> NoErr]
    ELSE IF CsvReadFails(file, i + 1)
        THEN [end |-> "return", rooms |-> rooms, err |-> ErrLoadFatal(i + 1)]
    ELSE IF i = 0 THEN ReadRecords_InsertsNil(file, 1, rooms, strict, validAttributes)
    ELSE LET made == NewRoomFromRecord(file.entries[i + 1].data, validAttributes)
         IN  IF made.err # NoErr /\ strict
                 THEN [end |-> "return", rooms |-> rooms, err |-> ErrRoomParse(made.err)]
             ELSE IF made.room = NilPtr
                 THEN ReadRecords_InsertsNil(file, i + 1, MapPut(rooms, 0, NilPtr),
                                             strict, validAttributes)
             ELSE ReadRecords_InsertsNil(file, i + 1,
                              MapPut(rooms, ID(made.room[1]), made.room[1]),
                              strict, validAttributes)

\* The loop of loadRooms after i entries have been read, rooms being the
\* local map: how the loop ends ("eof": break, "return": an error is
\* returned, "panic": room.ID() is called on the nil pointer that
\* NewRoomFromRecord returned with its error).
RECURSIVE ReadRecords(_, _, _, _, _)
ReadRecords(file, i, rooms, strict, validAttributes) ==
    IF i = Len(file.entries) THEN [end |-> "eof", rooms |-> rooms, err |-> NoErr]
    ELSE IF CsvReadFails(file, i + 1)
        THEN [end |-> "return", rooms |-> rooms, err |-> ErrLoadFatal(i + 1)]
    ELSE IF i = 0 THEN ReadRecords(file, 1, rooms, strict, validAttributes)
    ELSE LET made == NewRoomFromRecord(file.entries[i + 1].data, validAttributes)
         IN  IF made.err # NoErr /\ strict
                 THEN [end |-> "return", rooms |-> rooms, err |-> ErrRoomParse(made.err)]
             ELSE IF made.room = NilPtr
                 THEN [end |-> "panic", rooms |-> rooms, err |-> NoErr]
             ELSE ReadRecords(file, i + 1,
                              MapPut(rooms, ID(made.room[1]), made.room[1]),
                              strict, validAttributes)

\* loadRooms up to the lock: os.Open and the loop.
ReadRooms(file, strict, validAttributes) ==
    IF file.openErr THEN [end |-> "return", rooms |-> <<>>, err |-> ErrRoomsOpen]
    ELSE ReadRecords(file, 0, <<>>, strict, validAttributes)

\* A merge that replaces the mapping of the Hotel by the rooms just read.
Merge_ReplacesAll(hrooms, rooms) == rooms

\* for k, v := range rooms { h.rooms[k] = v }
Merge(hrooms, rooms) ==
    [k \in DOMAIN hrooms \cup DOMAIN rooms |->
        IF k \in DOMAIN rooms THEN rooms[k] ELSE hrooms[k]]

NoFile == File(<<>>)
NoCall ==
    [fn |-> "", attrData |-> NoFile, roomData |-> NoFile, strict |-> FALSE,
     rooms |-> <<>>, pre |-> [numRooms |-> 0, rooms |-> <<>>, roomAttrs |-> <<>>]]

HotelInit ==
    /\ DateUnused
    /\ RoomUnused
    /\ RecordUnused
    /\ ConcUnused
    /\ h = [numRooms |-> 0, rooms |-> <<>>, roomAttrs |-> <<>>]
    /\ hpc = [t \in HotelThreads |-> "idle"]
    /\ hf = [t \in HotelThreads |-> NoCall]
    /\ hret = [t \in HotelThreads |-> <<>>]
    /\ registry = FALSE
    /\ hloads = 0

\* NewHotelFromData(attrData, roomData, strict) is called, on files among
\* attrFiles and roomFiles: the Hotel is made.
NewHotelFromDataCall(t, attrFiles, roomFiles) ==
    /\ hpc[t] = "idle"
    /\ ~registry
    /\ hloads = 0
    /\ \E attrData \in attrFiles, roomData \in roomFiles, strict \in BOOLEAN :
          hf' = [hf EXCEPT ![t] = [NoCall EXCEPT !.fn = "NewHotelFromData",
                                                !.attrData = attrData,
                                                !.roomData = roomData,
                                                !.strict = strict]]
    /\ h' = [numRooms |-> 0, rooms |-> <<>>, roomAttrs |-> <<>>]
    /\ hpc' = [hpc EXCEPT ![t] = "attrs"]
    /\ UNCHANGED <<hret, registry, hloads, dateVars, roomVars, recordVars, concVars>>

\* A NewHotelFromData that goes on to loadRooms whatever loadAttributes returned.
LoadAttributes_IgnoresError(t) ==
    /\ hpc[t] = "attrs"
    /\ LET res == loadAttributes(h, hf[t].attrData)
           after == [h EXCEPT !.roomAttrs = res.roomAttrs]
       IN  /\ h' = after
           /\ hpc' = [hpc EXCEPT ![t] = "read"]
           /\ hret' = hret
           /\ hf' = [hf EXCEPT ![t].pre = after]
    /\ UNCHANGED <<registry, hloads, dateVars, roomVars, recordVars, concVars>>

\* hotel.loadAttributes(attrData), and the return of NewHotelFromData on its error.
LoadAttributes(t) ==
    /\ hpc[t] = "attrs"
    /\ LET res == loadAttributes(h, hf[t].attrData)
           after == [h EXCEPT !.roomAttrs = res.roomAttrs]
       IN  /\ h' = after
           /\ IF res.err # NoErr
              THEN /\ hpc' = [hpc EXCEPT ![t] = "returned"]
                   /\ hret' = [hret EXCEPT ![t] = <<[hotel |-> NilPtr, err |-> res.err]>>]
                   /\ hf' = hf
              ELSE /\ hpc' = [hpc EXCEPT ![t] = "read"]
                   /\ hret' = hret
                   /\ hf' = [hf EXCEPT ![t].pre = after]
    /\ UNCHANGED <<registry, hloads, dateVars, roomVars, recordVars, concVars>>

\* h.loadRooms(roomData, strict) is called on the Hotel NewHotelFromData
\* returned, on a file among roomFiles.
LoadRoomsCall(t, roomFiles) ==
    /\ hpc[t] = "idle"
    /\ registry
    /\ hloads < MaxReloads
    /\ hloads' = hloads + 1
    /\ \E roomData \in roomFiles, strict \in BOOLEAN :
          hf' = [hf EXCEPT ![t] = [NoCall EXCEPT !.fn = "loadRooms",
                                                !.roomData = roomData,
                                                !.strict = strict,
                                                !.pre = h]]
    /\ hpc' = [hpc EXCEPT ![t] = "read"]
    /\ UNCHANGED <<h, hret, registry, dateVars, roomVars, recordVars, concVars>>

\* LoadRoomsRead with the loop entering each room into h.rooms at once, not
\* into the local map.
LoadRoomsRead_InsertsDirectly(t) ==
    /\ hpc[t] = "read"
    /\ LET res == ReadRooms(hf[t].roomData, hf[t].strict, h.roomAttrs)
       IN  /\ hf' = [hf EXCEPT ![t].rooms = res.rooms]
           /\ h' = [h EXCEPT !.rooms = Merge(h.rooms, res.rooms)]
           /\ hpc' = [hpc EXCEPT ![t] = CASE res.end = "eof" -> "merge"
                                           [] res.end = "panic" -> "panicked"
                                           [] OTHER -> "returned"]
           /\ hret' = IF res.end = "return"
                      THEN [hret EXCEPT ![t] =
                              IF hf[t].fn = "NewHotelFromData"
                              THEN <<[hotel |-> NilPtr, err |-> res.err]>>
                              ELSE <<[err |-> res.err]>>]
                      ELSE hret
    /\ UNCHANGED <<registry, hloads, dateVars, roomVars, recordVars, concVars>>

\* loadRooms up to the lock, and the return on an error (of loadRooms, and of
\* NewHotelFromData when it is the caller).
LoadRoomsRead(t) ==
    /\ hpc[t] = "read"
    /\ LET res == ReadRooms(hf[t].roomData, hf[t].strict, h.roomAttrs)
       IN  /\ hf' = [hf EXCEPT ![t].rooms = res.rooms]
           /\ hpc' = [hpc EXCEPT ![t] = CASE res.end = "eof" -> "merge"
                                           [] res.end = "panic" -> "panicked"
                                           [] OTHER -> "returned"]
           /\ hret' = IF res.end = "return"
                      THEN [hret EXCEPT ![t] =
                              IF hf[t].fn = "NewHotelFromData"
                              THEN <<[hotel |-> NilPtr, err |-> res.err]>>
                              ELSE <<[err |-> res.err]>>]
                      ELSE hret
    /\ UNCHANGED <<h, registry, hloads, dateVars, roomVars, recordVars, concVars>>

\* loadRooms from h.mu.Lock() to its return of nil.
LoadRoomsMerge(t) ==
    /\ hpc[t] = "merge"
    /\ h' = [h EXCEPT !.rooms = Merge(h.rooms, hf[t].rooms)]
    /\ IF hf[t].fn = "NewHotelFromData"
       THEN /\ hpc' = [hpc EXCEPT ![t] = "count"]
            /\ hret' = hret
       ELSE /\ hpc' = [hpc EXCEPT ![t] = "returned"]
            /\ hret' = [hret EXCEPT ![t] = <<[err |-> NoErr]>>]
    /\ UNCHANGED <<hf, registry, hloads, dateVars, roomVars, recordVars, concVars>>

\* hotel.numRooms = uint(len(hotel.rooms)); return hotel, nil
NewHotelFromDataReturn(t) ==
    /\ hpc[t] = "count"
    /\ h' = [h EXCEPT !.numRooms = Cardinality(DOMAIN h.rooms)]
    /\ hret' = [hret EXCEPT ![t] = <<[hotel |-> <<"hotel">>, err |-> NoErr]>>]
    /\ registry' = TRUE
    /\ hpc' = [hpc EXCEPT ![t] = "returned"]
    /\ UNCHANGED <<hf, hloads, dateVars, roomVars, recordVars, concVars>>

\* The caller has the result of the call: the thread is ready for its next
\* call.  After a failed NewHotelFromData there is no Hotel to call on.
Returned(t) ==
    /\ hpc[t] = "returned"
    /\ registry
    /\ hpc' = [hpc EXCEPT ![t] = "idle"]
    /\ hf' = [hf EXCEPT ![t] = NoCall]
    /\ hret' = [hret EXCEPT ![t] = <<>>]
    /\ UNCHANGED <<h, registry, hloads, dateVars, roomVars, recordVars, concVars>>

HotelStep(t) ==
    \/ Returned(t)
    \/ LoadAttributes(t)
    \/ LoadRoomsRead(t)
    \/ LoadRoomsMerge(t)
    \/ NewHotelFromDataReturn(t)

Init == HotelInit

Next ==
    \E t \in HotelThreads :
        \/ NewHotelFromDataCall(t, FewAttrFiles, RoomFiles)
        \/ LoadRoomsCall(t, RoomFiles)
        \/ HotelStep(t)

Spec == Init /\ [][Next]_vars


(***************************************************************************)
(* NewHotelFromData up to the return of loadAttributes, on every attribute *)
(* file of at most MaxAttrLines entries, each a failure of the read or a   *)
(* line of at most MaxLineLen characters among LineChars.                  *)
(***************************************************************************)

MaxAttrLines == 2
MaxLineLen == 4

LineChars == {"v", "#", " ", "\t"}

AttrEntries ==
    {ReadFailure} \cup {Line(text) : text \in UNION {[1..n -> LineChars] : n \in 0..MaxLineLen}}

AllAttrFiles ==
    {Unopenable} \cup {File(es) : es \in UNION {[1..n -> AttrEntries] : n \in 0..MaxAttrLines}}

AttrNext ==
    \E t \in HotelThreads :
        \/ NewHotelFromDataCall(t, AllAttrFiles, {NoFile})
        \/ LoadAttributes(t)

AttrSpec == HotelInit /\ [][AttrNext]_vars

(***************************************************************************)
(* loadRooms called by two threads at once on the Hotel that               *)
(* NewHotelFromData returned, each thread once.  The merge is taken apart: *)
(* h.mu.Lock(), one h.rooms[k] = v of the range loop at a time (a range    *)
(* over a map visits the keys in any order), and the return with the       *)
(* deferred h.mu.Unlock().                                                 *)
(***************************************************************************)

ConcThreads == {"main", "loader"}

\* Bound: the records of the room files of this part after their header.
MaxConcRecords == 2

Header4 == Record(<< <<"i", "d">>, <<"p", "r">>, "state", <<"a", "t">> >>)

\* The records of the file NewHotelFromData was called on, and the records
\* each thread's file is made of: rooms 1 and 2 in both threads' files, not
\* the same in both, and a malformed record.
BasePool ==
    {Record(<< <<"1">>, <<"9">>, "UNAVAILABLE", <<>> >>),
     Record(<< <<"3">>, <<"9">>, "UNAVAILABLE", <<>> >>)}

ConcPool(t) ==
    IF t = "main"
    THEN {Record(<< <<"1">>, <<"5">>, "FREE", <<"a">> >>),
          Record(<< <<"2">>, <<"5">>, "FREE", <<"a">> >>),
          Record(<< <<"x">>, <<"5">>, "FREE", <<"a">> >>)}
    ELSE {Record(<< <<"1">>, <<"7">>, "OCCUPIED", <<"a", ",", "b">> >>),
          Record(<< <<"2">>, <<"7">>, "OCCUPIED", <<>> >>),
          Record(<< <<"2">>, <<"y">>, "OCCUPIED", <<>> >>)}

FilesOf(pool) ==
    {File(<<Header4>> \o recs) : recs \in UNION {[1..n -> pool] : n \in 0..MaxConcRecords}}

\* The Hotels NewHotelFromData returns on the vocabulary file of the one
\* line "v" and a room file of BasePool.
BuiltHotels ==
    {[numRooms |-> Cardinality(DOMAIN ReadRooms(f, TRUE, << <<"v">> >>).rooms),
      rooms |-> ReadRooms(f, TRUE, << <<"v">> >>).rooms,
      roomAttrs |-> << <<"v">> >>] : f \in FilesOf(BasePool)}

ConcInit ==
    /\ DateUnused
    /\ RoomUnused
    /\ RecordUnused
    /\ h \in BuiltHotels
    /\ hbase = h.rooms
    /\ hpc = [t \in ConcThreads |-> "idle"]
    /\ hf = [t \in ConcThreads |-> NoCall]
    /\ hret = [t \in ConcThreads |-> <<>>]
    /\ registry = TRUE
    /\ hloads = 0
    /\ hmu = <<>>
    /\ hleft = [t \in ConcThreads |-> {}]

\* Thread t, which has not called yet, calls h.loadRooms(roomData, strict)
\* on a file among roomFiles.
LoadRoomsCallOnce(t, roomFiles) ==
    /\ hpc[t] = "idle"
    /\ hf[t] = NoCall
    /\ \E roomData \in roomFiles, strict \in BOOLEAN :
          hf' = [hf EXCEPT ![t] = [NoCall EXCEPT !.fn = "loadRooms",
                                                !.roomData = roomData,
                                                !.strict = strict,
                                                !.pre = h]]
    /\ hpc' = [hpc EXCEPT ![t] = "read"]
    /\ UNCHANGED <<h, hret, registry, hloads, dateVars, roomVars, recordVars, concVars>>

\* A loadRooms without h.mu.Lock(): the range loop starts at once.
LoadRoomsLock_NoLock(t) ==
    /\ hpc[t] = "merge"
    /\ hleft' = [hleft EXCEPT ![t] = DOMAIN hf[t].rooms]
    /\ hpc' = [hpc EXCEPT ![t] = "range"]
    /\ UNCHANGED <<h, hf, hret, registry, hloads, hmu, hbase, dateVars, roomVars, recordVars>>

\* h.mu.Lock() returns: no other thread holds h.mu.
LoadRoomsLock(t) ==
    /\ hpc[t] = "merge"
    /\ hmu = <<>>
    /\ hmu' = <<t>>
    /\ hleft' = [hleft EXCEPT ![t] = DOMAIN hf[t].rooms]
    /\ hpc' = [hpc EXCEPT ![t] = "range"]
    /\ UNCHANGED <<h, hf, hret, registry, hloads, hbase, dateVars, roomVars, recordVars>>

\* One turn of the range loop: h.rooms[k] = v
LoadRoomsPut(t) ==
    /\ hpc[t] = "range"
    /\ \E k \in hleft[t] :
          /\ h' = [h EXCEPT !.rooms = MapPut(h.rooms, k, hf[t].rooms[k])]
          /\ hleft' = [hleft EXCEPT ![t] = @ \ {k}]
    /\ UNCHANGED <<hpc, hf, hret, registry, hloads, hmu, hbase, dateVars, roomVars, recordVars>>

\* The range loop is over: return nil, and the deferred h.mu.Unlock() runs.
LoadRoomsUnlock(t) ==
    /\ hpc[t] = "range"
    /\ hleft[t] = {}
    /\ hmu' = <<>>
    /\ hpc' = [hpc EXCEPT ![t] = "returned"]
    /\ hret' = [hret EXCEPT ![t] = <<[err |-> NoErr]>>]
    /\ UNCHANGED <<h, hf, registry, hloads, hleft, hbase, dateVars, roomVars, recordVars>>

\* A panic ends the program: no thread takes a step after it.
ConcNext ==
    /\ \A u \in ConcThreads : hpc[u] # "panicked"
    /\ \E t \in ConcThreads :
          \/ LoadRoomsCallOnce(t, FilesOf(ConcPool(t)))
          \/ LoadRoomsRead(t)
          \/ LoadRoomsLock(t)
          \/ LoadRoomsPut(t)
          \/ LoadRoomsUnlock(t)

ConcSpec == ConcInit /\ [][ConcNext]_vars

(***************************************************************************)
(*                  What the claims say of the data files                  *)
(***************************************************************************)

\* The text is unsigned-integer text.
IsUnsignedText(s) ==
    /\ s # <<>>
    /\ \A i \in 1..Len(s) : s[i] \in {"0", "1", "2", "3", "4", "5", "6", "7", "8", "9"}

\* The record is well-formed: 4 fields, id and price unsigned-integer text,
\* the state one of the three literals.
WellFormed(fields) ==
    /\ Len(fields) = 4
    /\ IsUnsignedText(fields[1])
    /\ IsUnsignedText(fields[2])
    /\ fields[3] \in {"OCCUPIED", "UNAVAILABLE", "FREE"}

\* The file opens and every read of it succeeds.
Readable(file) ==
    /\ ~file.openErr
    /\ \A i \in 1..Len(file.entries) : ~file.entries[i].readErr

\* The file has, after its header, a record with a record-level parse error.
HasMalformed(file) ==
    \E i \in 2..Len(file.entries) :
        ~file.entries[i].readErr /\ ~WellFormed(file.entries[i].data)

\* The Room of a well-formed record.
RoomOf(fields) ==
    [id |-> DecimalValue(fields[1]), price |-> DecimalValue(fields[2]),
     state |-> fields[3],
     attrs |-> {Split(fields[4], <<",">>)[i] : i \in 1..Len(Split(fields[4], <<",">>))}]

\* The rooms of the well-formed records among entries 2..n of the file, the
\* last record of a room number winning.
RECURSIVE WellFormedRooms(_, _)
WellFormedRooms(file, n) ==
    IF n < 2 THEN <<>>
    ELSE IF ~file.entries[n].readErr /\ WellFormed(file.entries[n].data)
        THEN MapPut(WellFormedRooms(file, n - 1),
                    RoomOf(file.entries[n].data).id, RoomOf(file.entries[n].data))
    ELSE WellFormedRooms(file, n - 1)

\* The first token of a line: what precedes its first space or tab.
RECURSIVE FirstToken(_)
FirstToken(text) ==
    IF text = <<>> \/ Head(text) \in {" ", "\t"} THEN <<>>
    ELSE <<Head(text)>> \o FirstToken(Tail(text))

\* The first tokens of the first n lines, but for the empty ones and "#".
RECURSIVE FirstTokens(_, _)
FirstTokens(file, n) ==
    IF n = 0 THEN <<>>
    ELSE IF FirstToken(file.entries[n].data) \in {<<>>, <<"#">>}
        THEN FirstTokens(file, n - 1)
    ELSE Append(FirstTokens(file, n - 1), FirstToken(file.entries[n].data))

\* Thread t's call has entered loadRooms, and loadRooms has ended.
LoadRoomsEnded(t) ==
    /\ hf[t].fn \in {"NewHotelFromData", "loadRooms"}
    /\ hpc[t] \in {"returned", "panicked", "count"}
    /\ hf[t].fn = "NewHotelFromData" => ~hf[t].attrData.openErr

\* loadRooms has returned to its caller, and what it returned.
LoadRoomsReturned(t) == LoadRoomsEnded(t) /\ hpc[t] # "panicked"
LoadRoomsErr(t) == IF hpc[t] = "count" THEN NoErr ELSE hret[t][1].err

(***************************************************************************)
(* C3: with strict = false, a room file whose records are a mix of         *)
(* well-formed and malformed ones loads successfully: no error is          *)
(* returned, the malformed records are dropped, and the rooms mapping      *)
(* holds exactly the rooms of the well-formed records (merged into what    *)
(* it held before).                                                        *)
(***************************************************************************)
C3_NonStrictLoadDropsMalformed ==
    \A t \in HotelThreads :
        (LoadRoomsEnded(t) /\ ~hf[t].strict /\ Readable(hf[t].roomData)) =>
            /\ hpc[t] # "panicked"
            /\ LoadRoomsErr(t) = NoErr
            /\ h.rooms = Merge(hf[t].pre.rooms,
                               WellFormedRooms(hf[t].roomData, Len(hf[t].roomData.entries)))

(***************************************************************************)
(* C5: loadAttributes appends to the vocabulary, for each line in file     *)
(* order, the first space-or-tab-delimited token of the line, but for      *)
(* lines whose first token is empty or "#"; duplicates are kept.           *)
(***************************************************************************)
C5_VocabularyIsFirstTokens ==
    \A t \in HotelThreads :
        (hpc[t] = "read" /\ Readable(hf[t].attrData)) =>
            h.roomAttrs = FirstTokens(hf[t].attrData, Len(hf[t].attrData.entries))

(***************************************************************************)
(* C6: after every successful load (NewHotelFromData returning the Hotel,  *)
(* and every later successful loadRooms on it), numRooms is the number of  *)
(* entries of the rooms mapping.                                           *)
(***************************************************************************)
C6_NumRoomsIsMappingSize ==
    \A t \in HotelThreads :
        (hpc[t] = "returned" /\ registry /\ hret[t][1].err = NoErr) =>
            h.numRooms = Cardinality(DOMAIN h.rooms)

(***************************************************************************)
(* C7: a failure to open or to read either data file is a fatal error of   *)
(* its loader: loadAttributes returns an error when the open fails and     *)
(* when the scan fails part-way, loadRooms returns an error when the open  *)
(* fails and when the read of a record fails, in both strict modes.        *)
(***************************************************************************)
C7_OpenAndReadFailuresAreFatal ==
    \A t \in HotelThreads :
        /\ (/\ hf[t].fn = "NewHotelFromData"
            /\ hpc[t] # "attrs"
            /\ ~Readable(hf[t].attrData)) =>
                /\ hpc[t] = "returned"
                /\ hret[t][1].hotel = NilPtr
                /\ hret[t][1].err = ErrAttrsOpen
        /\ (LoadRoomsReturned(t) /\ ~Readable(hf[t].roomData)) =>
                LoadRoomsErr(t) # NoErr

(***************************************************************************)
(* C8: with strict = true, if any record after the header has a            *)
(* record-level parse error, loadRooms returns an error for the whole      *)
(* load, wherever the record is and whatever surrounds it, and             *)
(* NewHotelFromData returns that error and no Hotel.                       *)
(***************************************************************************)
C8_StrictLoadFails ==
    \A t \in HotelThreads :
        (LoadRoomsEnded(t) /\ hf[t].strict /\ HasMalformed(hf[t].roomData)) =>
            /\ hpc[t] = "returned"
            /\ hret[t][1].err # NoErr
            /\ hret[t][1].err[1] \in {"load err: room parse err", "load err [fatal]"}
            /\ hf[t].fn = "NewHotelFromData" =>
                  (hret[t][1].hotel = NilPtr /\ ~registry)

\* strict NewHotelFromData has failed on a file whose malformed record (its
\* price is no number) stands between two well-formed ones.
C8_Witness ==
    \E t \in HotelThreads :
        /\ hpc[t] = "returned"
        /\ hf[t].fn = "NewHotelFromData"
        /\ hf[t].strict
        /\ Len(hf[t].roomData.entries) = 4
        /\ WellFormed(hf[t].roomData.entries[2].data)
        /\ Len(hf[t].roomData.entries[3].data) = 4
        /\ hf[t].roomData.entries[3].data[2] = <<"y">>
        /\ WellFormed(hf[t].roomData.entries[4].data)
        /\ hret[t][1].hotel = NilPtr
        /\ hret[t][1].err[1] = "load err: room parse err"

(***************************************************************************)
(* C9: a failed load is atomic: whenever loadRooms returns an error, the   *)
(* rooms mapping and the vocabulary of the Hotel are what they were before *)
(* the call, also when well-formed records came before the failing one.    *)
(***************************************************************************)
C9_FailedLoadLeavesHotel ==
    \A t \in HotelThreads :
        (LoadRoomsReturned(t) /\ LoadRoomsErr(t) # NoErr) =>
            /\ h.rooms = hf[t].pre.rooms
            /\ h.roomAttrs = hf[t].pre.roomAttrs

\* loadRooms has failed on a Hotel that holds rooms, after it had parsed a
\* room whose number the Hotel does not hold.
C9_Witness ==
    \E t \in HotelThreads :
        /\ LoadRoomsReturned(t)
        /\ hf[t].fn = "loadRooms"
        /\ LoadRoomsErr(t) # NoErr
        /\ hf[t].pre.rooms # <<>>
        /\ \E k \in DOMAIN hf[t].rooms : k \notin DOMAIN h.rooms


\* The attributes the shared Room was constructed with.
ConstructedAttrs == (CHOOSE r \in SharedRooms : r.id = room.id).attrs

\* Every attribute of attrs is one the Room was constructed with or one that
\* a returned AddAttribute call added.
HasAll(attrs) ==
    \A i \in 1..Len(attrs) : attrs[i] \in ConstructedAttrs \cup radded

(***************************************************************************)
(* C11: after any sequence of AddAttribute calls, Satisfies(attrs) returns *)
(* true exactly when every element of attrs is in the Room's attribute     *)
(* set, the attributes it was constructed with plus those added so far;    *)
(* so Satisfies of the empty list is true, and Satisfies([a, b]) on a      *)
(* NewRoom room is true exactly when both a and b have been added.         *)
(***************************************************************************)
C11_SatisfiesIsSubsetTest ==
    \A t \in Threads :
        rpc[t] = "s_ret" => rres[t] = <<HasAll(rarg[t])>>

\* Satisfies([a, b]) is about to return true on a room made by NewRoom.
C11_Witness ==
    \E t \in Threads :
        /\ rpc[t] = "s_ret"
        /\ room.id = 1
        /\ ConstructedAttrs = {}
        /\ rarg[t] = << <<"a">>, <<"b">> >>
        /\ rres[t] = <<TRUE>>

\* loadRooms has returned nil to its caller.
LoadRoomsSucceeded(t) == LoadRoomsReturned(t) /\ LoadRoomsErr(t) = NoErr

\* Entry i of the file is a well-formed record of room number k.
IsRecordOf(file, i, k) ==
    /\ ~file.entries[i].readErr
    /\ WellFormed(file.entries[i].data)
    /\ RoomOf(file.entries[i].data).id = k

\* The room numbers of the well-formed records of the file.
FileIDs(file) ==
    {RoomOf(file.entries[i].data).id :
        i \in {j \in 2..Len(file.entries) :
                 ~file.entries[j].readErr /\ WellFormed(file.entries[j].data)}}

\* The last entry of the file that is a well-formed record of room number k.
LastRecordOf(file, k) ==
    CHOOSE i \in 2..Len(file.entries) :
        /\ IsRecordOf(file, i, k)
        /\ \A j \in (i + 1)..Len(file.entries) : ~IsRecordOf(file, j, k)

(***************************************************************************)
(* C12: when several records of one successful loadRooms call carry the    *)
(* same room number, the registry ends with one room under that number,    *)
(* and it has the price, state and attributes of the last such record in   *)
(* file order.                                                             *)
(***************************************************************************)
C12_LastRecordWins ==
    \A t \in HotelThreads :
        LoadRoomsSucceeded(t) =>
            \A k \in FileIDs(hf[t].roomData) :
                /\ k \in DOMAIN h.rooms
                /\ h.rooms[k] =
                       RoomOf(hf[t].roomData.entries[LastRecordOf(hf[t].roomData, k)].data)

\* A load has succeeded on a file whose two records are both of room 1,
\* the first FREE at price 5, the second OCCUPIED at price 7.
C12_Witness ==
    \E t \in HotelThreads :
        /\ LoadRoomsSucceeded(t)
        /\ Len(hf[t].roomData.entries) = 3
        /\ hf[t].roomData.entries[2] = Record(<< <<"1">>, <<"5">>, "FREE", <<"a">> >>)
        /\ hf[t].roomData.entries[3] =
               Record(<< <<"1">>, <<"7">>, "OCCUPIED", <<"a", ",", "b">> >>)
        /\ h.rooms[1].price = 7
        /\ h.rooms[1].state = "OCCUPIED"

\* What the two loaders return on the files of thread t's NewHotelFromData.
AttrsErrOf(t) == loadAttributes(NoCall.pre, hf[t].attrData).err
RoomsResultOf(t) ==
    ReadRooms(hf[t].roomData, hf[t].strict,
              loadAttributes(NoCall.pre, hf[t].attrData).roomAttrs)

(***************************************************************************)
(* C13: NewHotelFromData runs loadAttributes, then loadRooms, and never    *)
(* exposes a partially built registry: what it returns is a registry with  *)
(* a nil error or no registry with a non-nil error; when loadAttributes    *)
(* returns an error the room file is never loaded; when either loader      *)
(* returns an error the registry returned is nil, and a registry that is   *)
(* returned holds all the rooms loaded and their count.                    *)
(***************************************************************************)
C13_NoPartialRegistry ==
    \A t \in HotelThreads :
        hf[t].fn = "NewHotelFromData" =>
            /\ registry <=> (hpc[t] = "returned" /\ hret[t][1].hotel # NilPtr)
            /\ hpc[t] = "returned" =>
                   (hret[t][1].hotel = NilPtr <=> hret[t][1].err # NoErr)
            /\ AttrsErrOf(t) # NoErr =>
                   /\ hpc[t] \in {"attrs", "returned"}
                   /\ hf[t].rooms = <<>>
                   /\ h.rooms = <<>>
                   /\ hpc[t] = "returned" =>
                          hret[t] = <<[hotel |-> NilPtr, err |-> AttrsErrOf(t)]>>
            /\ (AttrsErrOf(t) = NoErr /\ RoomsResultOf(t).end = "return"
                  /\ hpc[t] = "returned") =>
                   /\ hret[t] = <<[hotel |-> NilPtr, err |-> RoomsResultOf(t).err]>>
                   /\ h.rooms = <<>>
            /\ registry =>
                   /\ AttrsErrOf(t) = NoErr
                   /\ RoomsResultOf(t).end = "eof"
                   /\ h.rooms = RoomsResultOf(t).rooms
                   /\ h.numRooms = Cardinality(DOMAIN h.rooms)

\* NewHotelFromData has returned the error of loadAttributes, called with a
\* room file that has a well-formed record of room 1.
C13_Witness ==
    \E t \in HotelThreads :
        /\ hf[t].fn = "NewHotelFromData"
        /\ hpc[t] = "returned"
        /\ hret[t] = <<[hotel |-> NilPtr, err |-> ErrAttrsOpen]>>
        /\ Len(hf[t].roomData.entries) >= 2
        /\ IsRecordOf(hf[t].roomData, 2, 1)
        /\ Len(hf[t].roomData.entries[1].data) = 4
        /\ h.rooms = <<>>

(***************************************************************************)
(* C14: isLeapYear(y) is true exactly when y is divisible by 400, or by 4  *)
(* and not by 100 (2000, 2024 and 2400 are leap, 1900 and 2023 are not),   *)
(* and it is the leap status by which Date validation judges February: a   *)
(* 29th of February is refused as beyond the 28 days of a non-leap year    *)
(* exactly in the years that are not leap, and a 30th or 31st is refused   *)
(* as beyond 29 days in the leap years, beyond 28 in the others.           *)
(***************************************************************************)
C14_LeapYearRule ==
    /\ leapRes # <<>> => leapRes[1] = GregorianLeap(dIn.year)
    /\ (leapRes # <<>> /\ dIn.year \in {2000, 2024, 2400}) => leapRes[1]
    /\ (leapRes # <<>> /\ dIn.year \in {1900, 2023}) => ~leapRes[1]
    /\ (NewCalled /\ dIn.month = Feb /\ dIn.day = 29) =>
           (newRes[1].err = ErrInvalidDate(ErrFebNonLeap(29, dIn.year))
               <=> ~GregorianLeap(dIn.year))
    /\ (NewCalled /\ dIn.month = Feb /\ dIn.day \in {30, 31}) =>
           newRes[1].err =
               ErrInvalidDate(IF GregorianLeap(dIn.year)
                              THEN ErrFebLeap(dIn.day, dIn.year)
                              ELSE ErrFebNonLeap(dIn.day, dIn.year))

\* isLeapYear has answered false for 1900, and New has refused the 29th of
\* February 1900 as beyond the 28 days of a non-leap year.
C14_Witness ==
    /\ dIn = [year |-> 1900, month |-> Feb, day |-> 29]
    /\ leapRes = <<FALSE>>
    /\ NewCalled
    /\ newRes[1].err = ErrInvalidDate(ErrFebNonLeap(29, 1900))

\* A thread is inside the section of Satisfies under the read lock, of
\* AddAttribute under the write lock.
InSatisfies(t) == rpc[t] \in {"s_scan", "s_ret"}
InAddAttribute(t) == rpc[t] \in {"a_write", "a_unlock"}

(***************************************************************************)
(* C15: an AddAttribute call is never inside its locked section while a    *)
(* Satisfies call or another AddAttribute call on the same Room is inside  *)
(* its own; Satisfies calls exclude only AddAttribute, not each other.     *)
(***************************************************************************)
C15_WriterExcludesAll ==
    \A t \in Threads :
        InAddAttribute(t) =>
            \A u \in Threads \ {t} : ~InSatisfies(u) /\ ~InAddAttribute(u)

\* One thread is writing the attribute set while the other, which has
\* called Satisfies, is kept out at RLock.
C15_Witness ==
    \E t \in Threads, u \in Threads :
        /\ rpc[t] = "a_write"
        /\ rpc[u] = "s_rlock"

\* Two Satisfies calls are inside the read-locked section at once.
TwoSatisfiesInside ==
    \A t \in Threads : rpc[t] = "s_scan"

(***************************************************************************)
(* C16: a successful loadRooms on a registry is additive with overwrite on *)
(* conflict: afterwards every room number of the new file maps to the room *)
(* parsed from that file, every room number that was in the registry       *)
(* before and is absent from the new file maps to the room it had, and no  *)
(* entry is removed.                                                       *)
(***************************************************************************)
C16_LoadIsAdditive ==
    \A t \in HotelThreads :
        LoadRoomsSucceeded(t) =>
            /\ DOMAIN h.rooms = DOMAIN hf[t].pre.rooms \cup FileIDs(hf[t].roomData)
            /\ \A k \in DOMAIN hf[t].pre.rooms \ FileIDs(hf[t].roomData) :
                   h.rooms[k] = hf[t].pre.rooms[k]
            /\ \A k \in FileIDs(hf[t].roomData) :
                   h.rooms[k] =
                       RoomOf(hf[t].roomData.entries[LastRecordOf(hf[t].roomData, k)].data)

\* A reload has succeeded on a registry that held rooms 1 and 2, from a
\* file with another room 1 and no room 2.
C16_Witness ==
    \E t \in HotelThreads :
        /\ hf[t].fn = "loadRooms"
        /\ LoadRoomsSucceeded(t)
        /\ DOMAIN hf[t].pre.rooms = {1, 2}
        /\ FileIDs(hf[t].roomData) = {1}
        /\ h.rooms[1] # hf[t].pre.rooms[1]
        /\ h.rooms[2] = hf[t].pre.rooms[2]

\* The number a text of decimal digits denotes, digit by place value.
DigitOf(c) ==
    CASE c = "0" -> 0 [] c = "1" -> 1 [] c = "2" -> 2 [] c = "3" -> 3 [] c = "4" -> 4
      [] c = "5" -> 5 [] c = "6" -> 6 [] c = "7" -> 7 [] c = "8" -> 8 [] c = "9" -> 9

RECURSIVE PlaceValue(_, _)
PlaceValue(s, i) ==
    IF i > Len(s) THEN 0
    ELSE DigitOf(s[i]) * 10^(Len(s) - i) + PlaceValue(s, i + 1)

\* The texts between the commas of s, the ends of s counting as commas.
CommaSegments(s) ==
    LET cuts == {0, Len(s) + 1} \cup {i \in 1..Len(s) : s[i] = ","}
    IN  {SubSeq(s, i + 1, j - 1) :
            <<i, j>> \in {p \in cuts \X cuts :
                            /\ p[1] < p[2]
                            /\ \A k \in cuts : ~(p[1] < k /\ k < p[2])}}

(***************************************************************************)
(* C17: NewRoomFromRecord returns an error and no Room exactly when the    *)
(* record does not have 4 fields, or its id is not unsigned-integer text,  *)
(* or its price is not, or its state is not exactly one of OCCUPIED,       *)
(* UNAVAILABLE and FREE; otherwise it returns a Room with that id, price   *)
(* and state whose attributes are the comma-separated segments of the 4th  *)
(* field taken verbatim (the empty field gives the one empty attribute),   *)
(* whatever the vocabulary argument is.                                    *)
(***************************************************************************)
C17_RecordParsing ==
    recRes # <<>> =>
        IF WellFormed(recIn.record)
        THEN /\ recRes[1].err = NoErr
             /\ recRes[1].room =
                    <<[id |-> PlaceValue(recIn.record[1], 1),
                       price |-> PlaceValue(recIn.record[2], 1),
                       state |-> recIn.record[3],
                       attrs |-> CommaSegments(recIn.record[4])]>>
        ELSE /\ recRes[1].err # NoErr
             /\ recRes[1].room = NilPtr

\* NewRoomFromRecord has returned a Room for a record whose attributes field
\* is empty, called with a vocabulary that does not have the empty attribute.
C17_Witness ==
    /\ recRes # <<>>
    /\ recIn = [record |-> << <<"7">>, <<"5">>, "FREE", <<>> >>,
                validAttributes |-> << <<"a">> >>]
    /\ recRes[1].err = NoErr
    /\ recRes[1].room[1].attrs = {<<>>}

\* Thread t takes the step of AddAttribute that writes the attribute set.
WritesAttribute(t) == rpc[t] = "a_write" /\ rpc'[t] = "a_unlock"

(***************************************************************************)
(* C18: AddAttribute is idempotent and only grows the attribute set: its   *)
(* write adds its argument and nothing else, so AddAttribute(a) on a Room  *)
(* that already has a (a second AddAttribute(a), say) changes nothing;     *)
(* no step of any call removes an attribute or changes the Room's id,      *)
(* price or state.                                                         *)
(***************************************************************************)
C18_AddAttributeOnlyGrows ==
    [][/\ room'.id = room.id
       /\ room'.price = room.price
       /\ room'.state = room.state
       /\ room.attrs \subseteq room'.attrs
       /\ room' # room => \E t \in Threads : WritesAttribute(t)
       /\ \A t \in Threads :
              WritesAttribute(t) =>
                  /\ room'.attrs = room.attrs \cup {rarg[t][1]}
                  /\ rarg[t][1] \in room.attrs => room' = room]_vars

\* An AddAttribute call has written an attribute that an earlier, returned
\* AddAttribute call had added, and the set is what it was after that one.
C18_Witness ==
    \E t \in Threads :
        /\ rpc[t] = "a_unlock"
        /\ rarg[t][1] \in radded
        /\ rarg[t][1] \notin ConstructedAttrs
        /\ room.attrs = ConstructedAttrs \cup radded

\* Both threads' loadRooms calls have returned nil.
BothLoadsSucceeded ==
    \A t \in ConcThreads :
        hf[t].fn = "loadRooms" /\ hpc[t] = "returned" /\ hret[t] = <<[err |-> NoErr]>>

\* What the Hotel holds after the loadRooms call of thread t, then that of
\* thread u, one after the other.
OneAfterTheOther(t, u) == Merge(Merge(hbase, hf[t].rooms), hf[u].rooms)

(***************************************************************************)
(* C19: the merge of loadRooms is atomic with respect to other loads: when *)
(* two loadRooms calls run at once on one registry and both succeed, the   *)
(* final mapping is what the two calls give one after the other in one of  *)
(* the two orders, and the room numbers that are in both files all have    *)
(* the rooms of one and the same load, never a mixture.                    *)
(***************************************************************************)
C19_MergeIsAtomic ==
    BothLoadsSucceeded =>
        /\ \/ h.rooms = OneAfterTheOther("main", "loader")
           \/ h.rooms = OneAfterTheOther("loader", "main")
        /\ \E t \in ConcThreads :
               \A k \in DOMAIN hf["main"].rooms \cap DOMAIN hf["loader"].rooms :
                   h.rooms[k] = hf[t].rooms[k]

\* Both calls were made on the Hotel as NewHotelFromData returned it, both
\* files have rooms 1 and 2, both calls have returned nil, and the Hotel has
\* rooms 1 and 2 of the main thread's file and room 3 from before.
C19_Witness ==
    /\ BothLoadsSucceeded
    /\ \A t \in ConcThreads : hf[t].pre.rooms = hbase /\ DOMAIN hf[t].rooms = {1, 2}
    /\ DOMAIN hbase = {1, 3}
    /\ h.rooms[1] = hf["main"].rooms[1]
    /\ h.rooms[2] = hf["main"].rooms[2]
    /\ h.rooms[3] = hbase[3]

\* The value is a Room, not the nil pointer.
IsRoom(r) == DOMAIN r = {"id", "price", "state", "attrs"}

(***************************************************************************)
(* C20: in every reachable state of the registry, after any sequence of    *)
(* loads in either strict mode, every key k of the rooms mapping maps to   *)
(* a Room that is not nil and whose ID() is k.                             *)
(***************************************************************************)
C20_KeysAreRoomIDs ==
    \A k \in DOMAIN h.rooms : IsRoom(h.rooms[k]) /\ ID(h.rooms[k]) = k

\* A non-strict reload of a Hotel that held room 1 has returned nil, and
\* the Hotel holds rooms 1 and 2.
C20_Witness ==
    \E t \in HotelThreads :
        /\ hf[t].fn = "loadRooms"
        /\ ~hf[t].strict
        /\ LoadRoomsSucceeded(t)
        /\ DOMAIN hf[t].pre.rooms = {1}
        /\ DOMAIN h.rooms = {1, 2}
=============================================================================
